---- MODULE Spec2Model ----
(***************************************************************************)
(* Fixed size arrays (src/util/array.h): array<T, CallDestructors>, with   *)
(* the element count stored in a size_t header just before the elements.   *)
(* Memory is modelled at byte addresses; every method of the class is an   *)
(* operator from machine state to machine state that also records, in      *)
(* program order, the calls it makes to the allocator, to the elements'    *)
(* constructors and destructors, and its accesses to the header.           *)
(***************************************************************************)
EXTENDS Integers, Sequences, FiniteSets, TLC

\* ---- bounds of the model
MaxSz == 2           \* largest sz given to a creation

\* ---- the platform and the class's constants
SizeofT        == 4      \* sizeof(T)
SizeofSizeT    == 8      \* sizeof(size_t)
SizeTMod       == 256    \* size_t arithmetic is modulo 2^w (w scaled to 8)
ARRAY_SIZE_IDX == -1
Null           == 0
DefaultT       == 0      \* the value of T()
Indet          == -1     \* content of memory nothing has written
NoVs           == <<>>

Values     == 1..MaxSz
Handles    == {"x", "y"}
Originals  == {"x"}      \* handles built by a constructor of the class
Copies     == {"y"}      \* handles built as a copy of another handle
Written    == {MaxSz + 1, MaxSz + 2}   \* values stored through operator[] or an iterator
Allocators == {"a", "b"}
Regions    == {1, 2, 3}

\* static size_t space(size_t sz)
Space(sz) == (SizeofT * sz + SizeofSizeT) % SizeTMod

\* ---- the address space: one region per allocator, one caller buffer
Stride   == Space(MaxSz)
Base(r)  == r * Stride
Owner(r) == IF r = 1 THEN "a" ELSE IF r = 2 THEN "b" ELSE "caller"
CallerRegions == {r \in Regions : Owner(r) = "caller"}
ElemAddr(r, i) == Base(r) + SizeofSizeT + i * SizeofT
Addrs == UNION {{Base(r)} \cup {ElemAddr(r, i) : i \in 0..(MaxSz - 1)} : r \in Regions}

VARIABLES
    m_data,           \* [Handles -> address]: the field T * m_data of each handle
    mem,              \* [Addrs -> value]: header words and element values
    live,             \* addresses holding a constructed, not yet destroyed T
    alloc,            \* [Regions -> [used, bytes]]: the allocators' bookkeeping
    scope,            \* [Handles -> "none" | "alive" | "dead"]
    CallDestructors,  \* the template argument, fixed for a run
    debug,            \* whether DEBUG_CODE / SASSERT are compiled in
    trapped,          \* an SASSERT has failed: the program has aborted
    last,             \* the last operation: arguments, creation in force before it, calls made
    crt,              \* per handle: the creation in force (none once finalized)
    torn,             \* per handle: element indices torn down since that creation
    nfree             \* per handle: deallocate calls made since that creation

vars == <<m_data, mem, live, alloc, scope, CallDestructors, debug, trapped,
          last, crt, torn, nfree>>

\* ---- machine state threaded through the methods
Cur == [m_data |-> m_data, mem |-> mem, live |-> live, alloc |-> alloc,
        ev |-> <<>>, ret |-> 0, thrown |-> FALSE, trapped |-> FALSE]

Ev(e, a, x, al) == [e |-> e, a |-> a, x |-> x, al |-> al]
Emit(s, e) == [s EXCEPT !.ev = Append(@, e)]
Read(s, p) == IF p \in DOMAIN s.mem THEN s.mem[p] ELSE Indet
Write(s, p, v) == IF p \in DOMAIN s.mem THEN [s EXCEPT !.mem[p] = v] ELSE s

\* the content of a region that is handed out or handed back is indeterminate,
\* and no object lives in it
RegionAddrs(r) == {Base(r)} \cup {ElemAddr(r, i) : i \in 0..(MaxSz - 1)}
Raw(s, r) ==
    [s EXCEPT !.mem = [p \in Addrs |-> IF p \in RegionAddrs(r) THEN Indet ELSE @[p]],
              !.live = @ \ RegionAddrs(r)]

\* ---- the Allocator capability: allocate(bytes) -> address, deallocate(n, address)
\* (allocate fails when the allocator has no chunk left; the chunk given to
\* deallocate is the allocator's to overwrite, and it returns to the pool when it
\* is one this allocator handed out)
FreeRegions(s, a) == {r \in Regions : Owner(r) = a /\ ~s.alloc[r].used}

Allocate(s, a, bytes) ==
    IF FreeRegions(s, a) = {} \/ bytes > Stride
    THEN [Emit(s, Ev("throw", Null, bytes, a)) EXCEPT !.thrown = TRUE]
    ELSE LET r == CHOOSE r \in FreeRegions(s, a) : TRUE
         IN  [Emit(Raw(s, r), Ev("allocate", Base(r), bytes, a))
                 EXCEPT !.alloc[r] = [used |-> TRUE, bytes |-> bytes],
                        !.ret = Base(r)]

Deallocate(s, a, n, p) ==
    LET s1 == Emit(s, Ev("deallocate", p, n, a))
        at == {r \in Regions : p \in RegionAddrs(r)}
        s2 == IF at = {} THEN s1 ELSE Raw(s1, CHOOSE r \in at : TRUE)
        rs == {r \in Regions : Owner(r) = a /\ Base(r) = p /\ s.alloc[r].used}
    IN  IF rs = {} THEN s2
        ELSE [s2 EXCEPT !.alloc[CHOOSE r \in rs : TRUE].used = FALSE]

\* ---- element construction and destruction
Construct(s, it, v) ==
    [Emit(Write(s, it, v), Ev("ctor", it, v, "none")) EXCEPT !.live = @ \cup {it}]

Destroy(s, it) ==
    [Emit(s, Ev("dtor", it, 0, "none")) EXCEPT !.live = @ \ {it}]

\* ---- array<T, CallDestructors>
\* a size that looks at the header before it tests m_data
size_peeks(s, h) ==
    LET p == s.m_data[h] + ARRAY_SIZE_IDX * SizeofSizeT
    IN  [Emit(s, Ev("rdhdr", p, 0, "none"))
            EXCEPT !.ret = IF s.m_data[h] = Null THEN 0 ELSE Read(s, p)]

\* size_t size() const
size(s, h) ==
    IF s.m_data[h] = Null
    THEN [s EXCEPT !.ret = 0]
    ELSE LET p == s.m_data[h] + ARRAY_SIZE_IDX * SizeofSizeT
         IN  [Emit(s, Ev("rdhdr", p, 0, "none")) EXCEPT !.ret = Read(s, p)]

\* bool empty() const
empty(s, h) == s.m_data[h] = Null

\* iterator begin()
begin(s, h) == [s EXCEPT !.ret = s.m_data[h]]

\* iterator end()
end(s, h) ==
    LET s1 == size(s, h)
    IN  [s1 EXCEPT !.ret = s.m_data[h] + s1.ret * SizeofT]

\* a raw_ptr that forgets to step back over the header
raw_ptr_elements(s, h) == s.m_data[h]

\* char * raw_ptr() const
raw_ptr(s, h) == s.m_data[h] - SizeofSizeT

\* a teardown pass that stops one element short
RECURSIVE destroy_loop_short(_, _, _)
destroy_loop_short(s, it, e) ==
    IF it = e \/ it + SizeofT = e THEN s
    ELSE destroy_loop_short(Destroy(s, it), it + SizeofT, e)

RECURSIVE destroy_loop(_, _, _)
destroy_loop(s, it, e) ==
    IF it = e THEN s ELSE destroy_loop(Destroy(s, it), it + SizeofT, e)

\* void destroy_elements()
destroy_elements(s, h) ==
    LET s1 == begin(s, h)
        s2 == end(s1, h)
    IN  destroy_loop(s2, s1.ret, s2.ret)

\* void set_data(void * mem, size_t sz)
set_data(s, h, p, sz) ==
    [Emit(Write(s, p, sz), Ev("wrhdr", p, sz, "none"))
        EXCEPT !.m_data[h] = p + SizeofSizeT]

\* an allocate that writes the header whatever a.allocate did
allocate_ignores_failure(s, h, a, sz) ==
    LET s1 == Allocate(s, a, Space(sz))
    IN  set_data(s1, h, s1.ret, sz)

\* template<typename Allocator> void allocate(Allocator & a, size_t sz)
allocate(s, h, a, sz) ==
    LET s1 == Allocate(s, a, Space(sz))
    IN  IF s1.thrown THEN s1 ELSE set_data(s1, h, s1.ret, sz)

\* a default-construction pass that stops one element short
RECURSIVE init_loop_short(_, _, _)
init_loop_short(s, it, e) ==
    IF it = e \/ it + SizeofT = e THEN s
    ELSE init_loop_short(Construct(s, it, DefaultT), it + SizeofT, e)

RECURSIVE init_loop(_, _, _)
init_loop(s, it, e) ==
    IF it = e THEN s ELSE init_loop(Construct(s, it, DefaultT), it + SizeofT, e)

\* void init()
init(s, h) ==
    LET s1 == begin(s, h)
        s2 == end(s1, h)
    IN  init_loop(s2, s1.ret, s2.ret)

\* a copy pass that never advances the source pointer
RECURSIVE init_vs_loop_stuck(_, _, _, _, _)
init_vs_loop_stuck(s, it, e, vs, k) ==
    IF it = e THEN s
    ELSE init_vs_loop_stuck(Construct(s, it, IF k \in DOMAIN vs THEN vs[k] ELSE Indet),
                            it + SizeofT, e, vs, k)

\* a copy pass that fills the slots from the last one down
RECURSIVE init_vs_loop_backward(_, _, _, _, _)
init_vs_loop_backward(s, it, e, vs, k) ==
    IF it = e THEN s
    ELSE LET j == k + ((e - it) \div SizeofT) - 1
         IN  init_vs_loop_backward(
                 Construct(s, e - SizeofT, IF j \in DOMAIN vs THEN vs[j] ELSE Indet),
                 it, e - SizeofT, vs, k)

RECURSIVE init_vs_loop(_, _, _, _, _)
init_vs_loop(s, it, e, vs, k) ==
    IF it = e THEN s
    ELSE init_vs_loop(Construct(s, it, IF k \in DOMAIN vs THEN vs[k] ELSE Indet),
                      it + SizeofT, e, vs, k + 1)

\* void init(T const * vs)
init_vs(s, h, vs) ==
    LET s1 == begin(s, h)
        s2 == end(s1, h)
    IN  init_vs_loop(s2, s1.ret, s2.ret, vs, 1)

\* the assertion compiled out
AssertEmpty_off(s, h) == s

\* SASSERT(m_data == 0)
AssertEmpty(s, h) ==
    IF debug /\ s.m_data[h] # Null
    THEN [Emit(s, Ev("trap", s.m_data[h], 0, "none")) EXCEPT !.trapped = TRUE]
    ELSE s

\* void set(void * mem, size_t sz, T const * vs)
set_mem(s, h, p, sz, vs) ==
    LET s1 == AssertEmpty(s, h)
    IN  IF s1.trapped THEN s1 ELSE init_vs(set_data(s1, h, p, sz), h, vs)

\* template<typename Allocator> void set(Allocator & a, size_t sz, T const * vs)
set_alloc(s, h, a, sz, vs) ==
    LET s1 == AssertEmpty(s, h)
        s2 == allocate(s1, h, a, sz)
    IN  IF s1.trapped THEN s1
        ELSE IF s2.thrown THEN s2 ELSE init_vs(s2, h, vs)

\* DEBUG_CODE(m_data = 0;)
DebugClear(s, h) == IF debug THEN [s EXCEPT !.m_data[h] = Null] ELSE s

\* array(void * mem, size_t sz, T const * vs)
array_mem_vs(s, h, p, sz, vs) == set_mem(DebugClear(s, h), h, p, sz, vs)

\* array(void * mem, size_t sz, bool init_mem)
array_mem_init(s, h, p, sz, init_mem) ==
    LET s1 == set_data(DebugClear(s, h), h, p, sz)
    IN  IF init_mem THEN init(s1, h) ELSE s1

\* template<typename Allocator> array(Allocator & a, size_t sz, T const * vs)
array_alloc_vs(s, h, a, sz, vs) == set_alloc(DebugClear(s, h), h, a, sz, vs)

\* template<typename Allocator> array(Allocator & a, size_t sz, bool init_mem)
array_alloc_init(s, h, a, sz, init_mem) ==
    LET s1 == allocate(DebugClear(s, h), h, a, sz)
    IN  IF s1.thrown THEN s1
        ELSE IF init_mem THEN init(s1, h) ELSE s1

\* a finalize that leaves m_data pointing at the block it handed back
finalize_keeps_handle(s, h, a) ==
    IF s.m_data[h] # Null
    THEN LET s1 == IF CallDestructors THEN destroy_elements(s, h) ELSE s
             s2 == size(s1, h)
         IN  Deallocate(s2, a, s2.ret, raw_ptr(s2, h))
    ELSE s

\* a finalize without the test of m_data
finalize_unguarded(s, h, a) ==
    LET s1 == IF CallDestructors THEN destroy_elements(s, h) ELSE s
        s2 == size(s1, h)
        s3 == Deallocate(s2, a, s2.ret, raw_ptr(s2, h))
    IN  [Emit(s3, Ev("reset", Null, 0, "none")) EXCEPT !.m_data[h] = Null]

\* a finalize that resets the handle before it hands the block back
finalize_resets_first(s, h, a) ==
    IF s.m_data[h] # Null
    THEN LET s1 == IF CallDestructors THEN destroy_elements(s, h) ELSE s
             s2 == [Emit(s1, Ev("reset", Null, 0, "none")) EXCEPT !.m_data[h] = Null]
             s3 == size(s2, h)
         IN  Deallocate(s3, a, s3.ret, raw_ptr(s3, h))
    ELSE s

\* a finalize that hands the block back with its byte count
finalize_passes_space(s, h, a) ==
    IF s.m_data[h] # Null
    THEN LET s1 == IF CallDestructors THEN destroy_elements(s, h) ELSE s
             s2 == size(s1, h)
             s3 == Deallocate(s2, a, Space(s2.ret), raw_ptr(s2, h))
         IN  [Emit(s3, Ev("reset", Null, 0, "none")) EXCEPT !.m_data[h] = Null]
    ELSE s

\* template<typename Allocator> void finalize(Allocator & a)
finalize(s, h, a) ==
    IF s.m_data[h] # Null
    THEN LET s1 == IF CallDestructors THEN destroy_elements(s, h) ELSE s
             s2 == size(s1, h)
             s3 == Deallocate(s2, a, s2.ret, raw_ptr(s2, h))
         IN  [Emit(s3, Ev("reset", Null, 0, "none")) EXCEPT !.m_data[h] = Null]
    ELSE s

\* a destructor that also hands the block back
array_dtor_frees(s, h) == finalize(s, h, "a")

\* a destructor that tears the elements down whatever CallDestructors is
array_dtor_always(s, h) ==
    IF s.m_data[h] # Null THEN destroy_elements(s, h) ELSE s

\* ~array()
array_dtor(s, h) ==
    IF s.m_data[h] # Null /\ CallDestructors THEN destroy_elements(s, h) ELSE s

RECURSIVE iterate_loop(_, _, _)
iterate_loop(s, it, e) ==
    IF it = e THEN <<>> ELSE <<Read(s, it)>> \o iterate_loop(s, it + SizeofT, e)

\* for (it = begin(); it != end(); ++it) ... *it
iterate(s, h) == iterate_loop(s, begin(s, h).ret, end(s, h).ret)

\* an operator[] that counts idx from the start of the block
index_from_raw(s, h, idx) ==
    IF debug /\ ~(idx < size(s, h).ret)
    THEN [Emit(size(s, h), Ev("trap", s.m_data[h], idx, "none")) EXCEPT !.trapped = TRUE]
    ELSE [s EXCEPT !.ret = raw_ptr(s, h) + idx * SizeofT]

\* the bounds assertion compiled out
AssertIndex_off(s, h, idx) == s

\* SASSERT(idx < size())
AssertIndex(s, h, idx) ==
    IF debug
    THEN LET s1 == size(s, h)
         IN  IF idx < s1.ret THEN s1
             ELSE [Emit(s1, Ev("trap", s.m_data[h], idx, "none")) EXCEPT !.trapped = TRUE]
    ELSE s

\* T & operator[](size_t idx): the address of m_data[idx]
index(s, h, idx) ==
    LET s1 == AssertIndex(s, h, idx)
    IN  IF s1.trapped THEN s1 ELSE [s1 EXCEPT !.ret = s.m_data[h] + idx * SizeofT]

\* ... = x[idx]
index_read(s, h, idx) ==
    LET s1 == index(s, h, idx)
    IN  IF s1.trapped THEN s1
        ELSE [Emit(s1, Ev("rd", s1.ret, Read(s1, s1.ret), "none"))
                 EXCEPT !.ret = Read(s1, s1.ret)]

\* x[idx] = v
index_write(s, h, idx, v) ==
    LET s1 == index(s, h, idx)
    IN  IF s1.trapped THEN s1
        ELSE Emit(Write(s1, s1.ret, v), Ev("wr", s1.ret, v, "none"))

\* *(x.begin() + i) = v
iter_write(s, h, i, v) ==
    LET s1 == begin(s, h)
        it == s1.ret + i * SizeofT
    IN  Emit(Write(s1, it, v), Ev("wr", it, v, "none"))

RECURSIVE read_loop(_, _, _)
read_loop(s, it, e) ==
    IF it = e THEN s
    ELSE read_loop(Emit(s, Ev("rd", it, Read(s, it), "none")), it + SizeofT, e)

\* for (it = begin(); it != end(); ++it) ... *it, with the reads it makes
for_each(s, h) ==
    LET s1 == begin(s, h)
        s2 == end(s1, h)
    IN  read_loop(s2, s1.ret, s2.ret)

\* ---- the program: operations on the handles
NoCreation == [sz |-> 0, base |-> Null, via |-> "none", how |-> "none", vs |-> NoVs,
               cur |-> <<>>]

NoOp == [op |-> "none", h |-> "none", al |-> "none", p |-> Null, sz |-> 0,
         vs |-> NoVs, im |-> FALSE, pre |-> Null, n |-> 0, c |-> NoCreation,
         ev |-> <<>>, ok |-> TRUE, idx |-> 0, ret |-> 0, out |-> <<>>]

Op(op, h, al, p, sz, vs, im, s) ==
    [op |-> op, h |-> h, al |-> al, p |-> p, sz |-> sz, vs |-> vs, im |-> im,
     pre |-> m_data[h], n |-> size(Cur, h).ret, c |-> crt[h],
     ev |-> s.ev, ok |-> ~s.thrown /\ ~s.trapped, idx |-> 0, ret |-> 0, out |-> <<>>]

\* the source arrays handed to a creation: sz distinct values, ascending or descending
Sources(sz) == {[i \in 1..sz |-> i], [i \in 1..sz |-> sz + 1 - i]}

\* a caller-supplied chunk is one no handle in scope is stored in
FreshChunk(r) ==
    /\ r \in CallerRegions
    /\ \A g \in Handles : scope[g] = "alive" => m_data[g] # Base(r) + SizeofSizeT

DtorIndices(ev, base) ==
    LET ds == SelectSeq(ev, LAMBDA e : e.e = "dtor")
    IN  [k \in 1..Len(ds) |-> (ds[k].a - base) \div SizeofT]

CountOf(ev, kind) == Len(SelectSeq(ev, LAMBDA e : e.e = kind))

\* the address an allocate call of the operation returned
AllocAddr(ev) ==
    LET as == SelectSeq(ev, LAMBDA e : e.e = "allocate")
    IN  IF as = <<>> THEN Null ELSE as[1].a

Commit(s) ==
    /\ m_data' = s.m_data
    /\ mem' = s.mem
    /\ live' = s.live
    /\ alloc' = s.alloc
    /\ trapped' = s.trapped
    /\ UNCHANGED <<CallDestructors, debug>>

\* the element values a creation leaves in the slots
Placed(sz, how, vs) ==
    IF how = "vs" THEN vs
    ELSE [i \in 1..sz |-> IF how = "default" THEN DefaultT ELSE Indet]

\* bookkeeping of a creation: arguments kept once the creation has completed
Created(s, h, via, p, sz, how, vs) ==
    IF ~s.thrown /\ ~s.trapped
    THEN /\ crt' = [crt EXCEPT ![h] = [sz |-> sz, base |-> p, via |-> via,
                                        how |-> how, vs |-> vs,
                                        cur |-> Placed(sz, how, vs)]]
         /\ torn' = [torn EXCEPT ![h] = <<>>]
         /\ nfree' = [nfree EXCEPT ![h] = 0]
    ELSE UNCHANGED <<crt, torn, nfree>>

Ready == ~trapped

\* set's precondition, SASSERT(m_data == 0): a build with assertions checks it, a
\* build without them relies on the caller for it
MaySet(h) == debug \/ m_data[h] = Null

\* array()
Default(h) ==
    /\ Ready /\ scope[h] = "none"
    /\ Commit([Cur EXCEPT !.m_data[h] = Null])
    /\ scope' = [scope EXCEPT ![h] = "alive"]
    /\ last' = Op("array", h, "none", Null, 0, NoVs, FALSE, Cur)
    /\ UNCHANGED <<crt, torn, nfree>>

CtorMemVs(h) ==
    /\ Ready /\ scope[h] = "none"
    /\ \E r \in Regions, sz \in 0..MaxSz : \E vs \in Sources(sz) :
          /\ FreshChunk(r)
          /\ LET s == array_mem_vs(Raw(Cur, r), h, Base(r), sz, vs)
             IN  /\ Commit(s)
                 /\ scope' = [scope EXCEPT ![h] = "alive"]
                 /\ last' = Op("array_mem_vs", h, "none", Base(r), sz, vs, FALSE, s)
                 /\ Created(s, h, "mem", Base(r), sz, "vs", vs)

CtorMemInit(h) ==
    /\ Ready /\ scope[h] = "none"
    /\ \E r \in Regions, sz \in 0..MaxSz, init_mem \in BOOLEAN :
          /\ FreshChunk(r)
          /\ LET s == array_mem_init(Raw(Cur, r), h, Base(r), sz, init_mem)
             IN  /\ Commit(s)
                 /\ scope' = [scope EXCEPT ![h] = "alive"]
                 /\ last' = Op("array_mem_init", h, "none", Base(r), sz, NoVs, init_mem, s)
                 /\ Created(s, h, "mem", Base(r), sz,
                            IF init_mem THEN "default" ELSE "none", NoVs)

\* a constructor that throws leaves no object behind
CtorAllocVs(h) ==
    /\ Ready /\ scope[h] = "none"
    /\ \E a \in Allocators, sz \in 0..MaxSz : \E vs \in Sources(sz) :
          LET s == array_alloc_vs(Cur, h, a, sz, vs)
          IN  /\ Commit(s)
              /\ scope' = [scope EXCEPT ![h] = IF s.thrown THEN "none" ELSE "alive"]
              /\ last' = Op("array_alloc_vs", h, a, Null, sz, vs, FALSE, s)
              /\ Created(s, h, a, AllocAddr(s.ev), sz, "vs", vs)

CtorAllocInit(h) ==
    /\ Ready /\ scope[h] = "none"
    /\ \E a \in Allocators, sz \in 0..MaxSz, init_mem \in BOOLEAN :
          LET s == array_alloc_init(Cur, h, a, sz, init_mem)
          IN  /\ Commit(s)
              /\ scope' = [scope EXCEPT ![h] = IF s.thrown THEN "none" ELSE "alive"]
              /\ last' = Op("array_alloc_init", h, a, Null, sz, NoVs, init_mem, s)
              /\ Created(s, h, a, AllocAddr(s.ev), sz,
                         IF init_mem THEN "default" ELSE "none", NoVs)

SetMem(h) ==
    /\ Ready /\ scope[h] = "alive" /\ MaySet(h)
    /\ \E r \in Regions, sz \in 0..MaxSz : \E vs \in Sources(sz) :
          /\ FreshChunk(r)
          /\ LET s == set_mem(Raw(Cur, r), h, Base(r), sz, vs)
             IN  /\ Commit(s)
                 /\ last' = Op("set_mem", h, "none", Base(r), sz, vs, FALSE, s)
                 /\ Created(s, h, "mem", Base(r), sz, "vs", vs)
    /\ UNCHANGED scope

SetAlloc(h) ==
    /\ Ready /\ scope[h] = "alive" /\ MaySet(h)
    /\ \E a \in Allocators, sz \in 0..MaxSz : \E vs \in Sources(sz) :
          LET s == set_alloc(Cur, h, a, sz, vs)
          IN  /\ Commit(s)
              /\ last' = Op("set_alloc", h, a, Null, sz, vs, FALSE, s)
              /\ Created(s, h, a, AllocAddr(s.ev), sz, "vs", vs)
    /\ UNCHANGED scope

\* the word a read of h's header yields: what the block holds, or any count
\* once the block has been handed back and its content is indeterminate
HeaderWords(h) ==
    IF m_data[h] = Null \/ Read(Cur, m_data[h] - SizeofSizeT) # Indet
    THEN {Read(Cur, m_data[h] - SizeofSizeT)}
    ELSE 0..MaxSz

Settled(h, n) ==
    IF m_data[h] = Null THEN Cur ELSE Write(Cur, m_data[h] - SizeofSizeT, n)

\* bookkeeping of a teardown
Teardown(s, h) ==
    /\ torn' = [torn EXCEPT ![h] = @ \o DtorIndices(s.ev, m_data[h])]
    /\ nfree' = [nfree EXCEPT ![h] = @ + CountOf(s.ev, "deallocate")]

Finalize(h) ==
    /\ Ready /\ scope[h] = "alive"
    /\ \E a \in Allocators, n \in HeaderWords(h) :
          LET s == finalize(Settled(h, n), h, a)
          IN  /\ Commit(s)
              /\ last' = Op("finalize", h, a, Null, 0, NoVs, FALSE, s)
              /\ Teardown(s, h)
    /\ crt' = [crt EXCEPT ![h] = NoCreation]
    /\ UNCHANGED scope

\* the handle goes out of scope
ScopeExit(h) ==
    /\ Ready /\ scope[h] = "alive"
    /\ \E n \in HeaderWords(h) :
          LET s == array_dtor(Settled(h, n), h)
          IN  /\ Commit(s)
              /\ last' = Op("~array", h, "none", Null, 0, NoVs, FALSE, s)
              /\ Teardown(s, h)
    /\ UNCHANGED crt
    /\ scope' = [scope EXCEPT ![h] = "dead"]

Init ==
    /\ m_data = [h \in Handles |-> Null]
    /\ mem = [p \in Addrs |-> Indet]
    /\ live = {}
    /\ alloc = [r \in Regions |-> [used |-> FALSE, bytes |-> 0]]
    /\ scope = [h \in Handles |-> "none"]
    /\ CallDestructors \in BOOLEAN
    /\ debug \in BOOLEAN
    /\ trapped = FALSE
    /\ last = NoOp
    /\ crt = [h \in Handles |-> NoCreation]
    /\ torn = [h \in Handles |-> <<>>]
    /\ nfree = [h \in Handles |-> 0]

Next ==
    \E h \in Originals :
        \/ Default(h)
        \/ CtorMemVs(h)
        \/ CtorMemInit(h)
        \/ CtorAllocVs(h)
        \/ CtorAllocInit(h)
        \/ SetMem(h)
        \/ SetAlloc(h)
        \/ Finalize(h)
        \/ ScopeExit(h)

Spec == Init /\ [][Next]_vars

\* ---- reads and writes of a handle in scope
Quiet == UNCHANGED <<scope, crt, torn, nfree>>

\* operator[]'s precondition, SASSERT(idx < size()): checked with assertions,
\* left to the caller without them
MayIndex(h, idx) == debug \/ idx < size(Cur, h).ret

\* the slots a write of v to slot i leaves behind, as the caller expects them
Stored(h, i, v) ==
    IF i < crt[h].sz THEN [crt EXCEPT ![h].cur[i + 1] = v] ELSE crt

SizeCall(h) ==
    /\ Ready /\ scope[h] = "alive"
    /\ LET s == size(Cur, h)
       IN  /\ Commit(s)
           /\ last' = [Op("size", h, "none", Null, 0, NoVs, FALSE, s) EXCEPT !.ret = s.ret]
    /\ Quiet

EmptyCall(h) ==
    /\ Ready /\ scope[h] = "alive"
    /\ Commit(Cur)
    /\ last' = [Op("empty", h, "none", Null, 0, NoVs, FALSE, Cur)
                   EXCEPT !.ret = IF empty(Cur, h) THEN 1 ELSE 0]
    /\ Quiet

IterateCall(h) ==
    /\ Ready /\ scope[h] = "alive"
    /\ LET s == for_each(Cur, h)
           rd == SelectSeq(s.ev, LAMBDA e : e.e = "rd")
       IN  /\ Commit(s)
           /\ last' = [Op("iterate", h, "none", Null, 0, NoVs, FALSE, s)
                          EXCEPT !.out = [k \in 1..Len(rd) |-> rd[k].x]]
    /\ Quiet

IndexRead(h) ==
    /\ Ready /\ scope[h] = "alive"
    /\ \E idx \in 0..MaxSz :
          /\ MayIndex(h, idx)
          /\ LET s == index_read(Cur, h, idx)
             IN  /\ Commit(s)
                 /\ last' = [Op("index_read", h, "none", Null, 0, NoVs, FALSE, s)
                                EXCEPT !.idx = idx, !.ret = s.ret]
    /\ Quiet

IndexWrite(h) ==
    /\ Ready /\ scope[h] = "alive"
    /\ \E idx \in 0..MaxSz, v \in Written :
          /\ MayIndex(h, idx)
          /\ LET s == index_write(Cur, h, idx, v)
             IN  /\ Commit(s)
                 /\ last' = [Op("index_write", h, "none", Null, 0, NoVs, FALSE, s)
                                EXCEPT !.idx = idx, !.ret = v]
          /\ crt' = Stored(h, idx, v)
    /\ UNCHANGED <<scope, torn, nfree>>

\* a write through an iterator that has not reached end()
IterWrite(h) ==
    /\ Ready /\ scope[h] = "alive"
    /\ \E i \in 0..(MaxSz - 1), v \in Written :
          /\ i < size(Cur, h).ret
          /\ LET s == iter_write(Cur, h, i, v)
             IN  /\ Commit(s)
                 /\ last' = [Op("iter_write", h, "none", Null, 0, NoVs, FALSE, s)
                                EXCEPT !.idx = i, !.ret = v]
          /\ crt' = Stored(h, i, v)
    /\ UNCHANGED <<scope, torn, nfree>>

NextAccess ==
    \E h \in Originals :
        \/ Default(h)
        \/ CtorMemVs(h)
        \/ CtorAllocVs(h)
        \/ SizeCall(h)
        \/ EmptyCall(h)
        \/ IterateCall(h)
        \/ IndexRead(h)
        \/ IndexWrite(h)
        \/ IterWrite(h)
        \/ Finalize(h)
        \/ ScopeExit(h)

SpecAccess == Init /\ [][NextAccess]_vars

\* ---- copies of a handle
\* array(array const &), which the compiler generates: it copies m_data
array_copy(s, h, g) == [s EXCEPT !.m_data[h] = s.m_data[g]]

\* array h(g)
CopyCtor(h) ==
    /\ Ready /\ scope[h] = "none"
    /\ \E g \in Handles \ {h} :
          /\ scope[g] = "alive"
          /\ LET s == array_copy(Cur, h, g)
             IN  /\ Commit(s)
                 /\ last' = [Op("array_copy", h, "none", Null, 0, NoVs, FALSE, s)
                                EXCEPT !.p = m_data[g]]
          /\ crt' = [crt EXCEPT ![h] = crt[g]]
    /\ scope' = [scope EXCEPT ![h] = "alive"]
    /\ torn' = [torn EXCEPT ![h] = <<>>]
    /\ nfree' = [nfree EXCEPT ![h] = 0]

NextCopy ==
    \/ \E h \in Originals : Default(h) \/ CtorMemVs(h) \/ CtorAllocVs(h)
    \/ \E h \in Copies : CopyCtor(h)
    \/ \E h \in Handles : Finalize(h) \/ ScopeExit(h)

SpecCopy == Init /\ [][NextCopy]_vars

\* ---- space() on its own: every argument a size_t can hold
SizeTValues == 0..(SizeTMod - 1)

\* a call of array::space(n)
SpaceCall(n) ==
    /\ last' = [NoOp EXCEPT !.op = "space", !.sz = n, !.ret = Space(n)]
    /\ UNCHANGED <<m_data, mem, live, alloc, scope, CallDestructors, debug,
                   trapped, crt, torn, nfree>>

NextSpace == \E n \in SizeTValues : SpaceCall(n)

SpecSpace == Init /\ [][NextSpace]_vars

\* ---- properties
Upto(n) == [k \in 1..n |-> k - 1]
EventsOf(kind) == SelectSeq(last.ev, LAMBDA e : e.e = kind)
CopyCreations == {"array_mem_vs", "array_alloc_vs", "set_mem", "set_alloc"}
Teardowns == {"finalize", "~array"}

\* C1: after a creation from a source sequence vs of n values has completed (set
\* or constructor, into caller memory or through an allocator), size() is n and
\* iterating begin()..end() yields vs[0], ..., vs[n-1] in that order.
C1_CopyRoundTrip ==
    \A h \in Handles :
        (last.h = h /\ last.op \in CopyCreations /\ last.ok) =>
            /\ size(Cur, h).ret = last.sz
            /\ iterate(Cur, h) = last.vs

C1_Witness ==
    /\ last.op = "set_alloc" /\ last.ok /\ last.sz = MaxSz
    /\ last.vs = [i \in 1..MaxSz |-> MaxSz + 1 - i]
    /\ iterate(Cur, last.h) = last.vs

\* C2: a handle in scope is empty() exactly when no creation is in force for it
\* (never created into, or finalized since its last creation); a block created
\* with n = 0 has size() = 0 and is not empty().
C2_EmptyIffNotBacked ==
    \A h \in Handles :
        scope[h] = "alive" =>
            /\ empty(Cur, h) <=> crt[h].via = "none"
            /\ (crt[h].via # "none" /\ crt[h].sz = 0) =>
                   (size(Cur, h).ret = 0 /\ ~empty(Cur, h))

C2_Witness ==
    \E h \in Handles :
        /\ scope[h] = "alive" /\ crt[h].via \in Allocators /\ crt[h].sz = 0
        /\ size(Cur, h).ret = 0 /\ ~empty(Cur, h)

\* C3: with CallDestructors, a finalize or a scope exit invokes exactly size()
\* teardowns, on the elements 0..size()-1 in that order, and over the finalize
\* calls and the scope exit that follow one creation every element is torn down
\* once: a finalize followed by scope exit tears nothing down again.
C3_TeardownOnce ==
    CallDestructors =>
        \A h \in Handles :
            /\ (last.h = h /\ last.op \in Teardowns) =>
                   /\ DtorIndices(last.ev, last.pre) = Upto(last.n)
                   /\ last.c.via # "none" => torn[h] = Upto(last.c.sz)
            /\ torn[h] = Upto(Len(torn[h]))

C3_Witness ==
    \E h \in Handles :
        /\ CallDestructors /\ scope[h] = "dead"
        /\ last.op = "~array" /\ last.pre = Null /\ last.ev = <<>>
        /\ torn[h] = Upto(MaxSz) /\ nfree[h] = 1

RegionAt(p) == CHOOSE r \in Regions : Base(r) = p
Slots(h, n) == {m_data[h] + i * SizeofT : i \in 0..(n - 1)}

\* C4: for a block created through an allocator, the size argument finalize
\* passes to a.deallocate equals the byte count space(n) that was passed to
\* a.allocate when the block was created.
C4_DeallocateGetsSpace ==
    \A k \in 1..Len(last.ev) :
        (last.op = "finalize" /\ last.c.via \in Allocators
            /\ last.ev[k].e = "deallocate") =>
            last.ev[k].x = alloc[RegionAt(last.c.base)].bytes

\* C5 as stated: every address passed to a.deallocate is the header address
\* that an a.allocate call of that same allocator returned for the block, and it
\* has not been deallocated since.
C5_ReleasedToProducer ==
    \A h \in Handles :
        /\ nfree[h] <= 1
        /\ \A k \in 1..Len(last.ev) :
              (last.h = h /\ last.ev[k].e = "deallocate") =>
                  /\ last.ev[k].a = last.c.base
                  /\ last.ev[k].al = last.c.via

\* C5 as amended: every address finalize passes to deallocate is the header
\* address of the handle's block (m_data - sizeof(size_t), not the element
\* address), which is the address the creation got from allocate or was given
\* as mem; it goes to the allocator the caller names, whichever produced the
\* block; and one creation's block is passed to deallocate at most once.
C5_ReleasesHeaderAddress ==
    \A h \in Handles :
        /\ nfree[h] <= 1
        /\ \A k \in 1..Len(last.ev) :
              (last.h = h /\ last.ev[k].e = "deallocate") =>
                  /\ last.op = "finalize"
                  /\ last.ev[k].a = last.c.base
                  /\ last.ev[k].a = last.pre - SizeofSizeT
                  /\ last.ev[k].a # last.pre
                  /\ last.ev[k].al = last.al

C5_Witness ==
    /\ last.op = "finalize" /\ last.c.via \in Allocators /\ last.al = last.c.via
    /\ EventsOf("deallocate") = <<Ev("deallocate", last.c.base, last.c.sz, last.al)>>
    /\ ~alloc[RegionAt(last.c.base)].used

\* C6: finalize on an empty handle invokes no teardown, makes no deallocate call
\* and leaves the handle empty; so the finalize calls that follow one creation
\* make exactly one deallocate call between them.
C6_FinalizeEmptyNoOp ==
    \A h \in Handles :
        /\ (last.h = h /\ last.op = "finalize" /\ last.pre = Null) =>
               (last.ev = <<>> /\ m_data[h] = Null)
        /\ (last.h = h /\ last.op = "finalize" /\ last.pre # Null) => nfree[h] = 1
        /\ nfree[h] <= 1

C6_Witness ==
    \E h \in Handles :
        /\ last.h = h /\ last.op = "finalize" /\ last.pre = Null
        /\ nfree[h] = 1 /\ scope[h] = "alive"

\* C7: finalize on a non-empty handle makes its calls in this order: with
\* CallDestructors the teardown of elements 0..size()-1, then a.deallocate with
\* the size() read just before it, then the reset of the handle; nothing follows
\* the reset.
C7_FinalizeOrder ==
    \A h \in Handles :
        (last.h = h /\ last.op = "finalize" /\ last.pre # Null) =>
            LET calls == SelectSeq(last.ev, LAMBDA e : e.e # "rdhdr")
                nd == IF CallDestructors THEN last.n ELSE 0
            IN  /\ calls = [k \in 1..(nd + 2) |->
                     IF k <= nd
                     THEN Ev("dtor", last.pre + (k - 1) * SizeofT, 0, "none")
                     ELSE IF k = nd + 1
                     THEN Ev("deallocate", last.pre - SizeofSizeT, last.n, last.al)
                     ELSE Ev("reset", Null, 0, "none")]
                /\ last.ev[Len(last.ev) - 2].e = "rdhdr"
                /\ m_data[h] = Null

C7_Witness ==
    /\ CallDestructors /\ last.op = "finalize" /\ last.n = MaxSz
    /\ CountOf(last.ev, "dtor") = MaxSz
    /\ last.ev[Len(last.ev)].e = "reset"

\* C8: scope exit makes no allocator call, writes no header and leaves m_data,
\* the header and the region's allocation as they were: a block that goes out of
\* scope without finalize is still allocated, whatever CallDestructors is; only
\* finalize calls deallocate.
C8_ScopeExitKeepsRegion ==
    /\ EventsOf("deallocate") # <<>> => last.op = "finalize"
    /\ \A h \in Handles :
          (last.h = h /\ last.op = "~array") =>
              /\ \A k \in 1..Len(last.ev) : last.ev[k].e \in {"rdhdr", "dtor"}
              /\ m_data[h] = last.pre
              /\ last.c.via # "none" => mem[last.c.base] = last.c.sz
              /\ last.c.via \in Allocators => alloc[RegionAt(last.c.base)].used

C8_Witness ==
    /\ last.op = "~array" /\ last.c.via \in Allocators /\ last.c.sz = MaxSz
    /\ CallDestructors /\ CountOf(last.ev, "dtor") = MaxSz
    /\ alloc[RegionAt(last.c.base)].used

\* C9: without CallDestructors no operation invokes an element teardown, and
\* finalize on a non-empty handle still calls deallocate once and resets the
\* handle.
C9_NoTeardownWithoutFlag ==
    ~CallDestructors =>
        /\ EventsOf("dtor") = <<>>
        /\ \A h \in Handles :
              /\ torn[h] = <<>>
              /\ (last.h = h /\ last.op = "finalize" /\ last.pre # Null) =>
                     /\ CountOf(last.ev, "deallocate") = 1
                     /\ m_data[h] = Null

C9_Witness ==
    /\ ~CallDestructors /\ last.op = "finalize" /\ last.c.sz = MaxSz
    /\ last.c.how = "vs" /\ CountOf(last.ev, "deallocate") = 1
    /\ m_data[last.h] = Null

\* C10 as stated: a handle in scope is empty, or points just past a header that
\* holds count and is followed by exactly count live instances of T, whichever
\* constructor or set created the block.
C10_CountLiveElements ==
    \A h \in Handles :
        scope[h] = "alive" =>
            \/ m_data[h] = Null
            \/ /\ Read(Cur, m_data[h] - SizeofSizeT) = crt[h].sz
               /\ live = Slots(h, crt[h].sz)

\* C10 as amended: a handle in scope is empty, or points just past a header
\* that holds count and is followed by count slots of T, all of them live when
\* the block was created from a source sequence or with init_mem = true, and
\* none of them constructed when it was created with init_mem = false.
C10_CountSlots ==
    \A h \in Handles :
        scope[h] = "alive" =>
            \/ m_data[h] = Null
            \/ /\ Read(Cur, m_data[h] - SizeofSizeT) = crt[h].sz
               /\ m_data[h] - SizeofSizeT = crt[h].base
               /\ live = IF crt[h].how = "none" THEN {} ELSE Slots(h, crt[h].sz)

C10_Witness ==
    \E h \in Handles :
        /\ scope[h] = "alive" /\ crt[h].how = "default" /\ crt[h].sz = MaxSz
        /\ live = Slots(h, MaxSz) /\ Cardinality(live) = MaxSz

\* C13: the count argument finalize passes to a.deallocate is the element count
\* of the block: size() as read before the handle is reset, the n given at
\* creation.
C13_DeallocateGetsCount ==
    \A h \in Handles :
        (last.h = h /\ last.op = "finalize" /\ last.c.via # "none") =>
            /\ EventsOf("deallocate") # <<>>
            /\ \A k \in 1..Len(last.ev) :
                  last.ev[k].e = "deallocate" =>
                      (last.ev[k].x = last.c.sz /\ last.ev[k].x = last.n)

C13_Witness ==
    /\ last.op = "finalize" /\ last.c.via \in Allocators /\ last.c.sz = MaxSz
    /\ \E k \in 1..Len(last.ev) :
          last.ev[k].e = "deallocate" /\ last.ev[k].x = MaxSz

AllocCreations == {"array_alloc_vs", "array_alloc_init", "set_alloc"}
Creations == CopyCreations \cup {"array_mem_init", "array_alloc_init"}

\* C15: an allocator-based creation calls a.allocate(space(n)) first and writes
\* the header next, before any element is constructed; when allocate fails the
\* creation has made no other call, constructed nothing and left m_data alone.
C15_AllocateBeforeInit ==
    \A h \in Handles :
        (last.h = h /\ last.op \in AllocCreations /\ last.ev # <<>>
            /\ last.ev[1].e # "trap") =>
            IF last.ok
            THEN /\ Len(last.ev) >= 2
                 /\ last.ev[1] = Ev("allocate", m_data[h] - SizeofSizeT,
                                    Space(last.sz), last.al)
                 /\ last.ev[2] = Ev("wrhdr", last.ev[1].a, last.sz, "none")
                 /\ \A k \in 1..Len(last.ev) : last.ev[k].e = "ctor" => k > 2
            ELSE /\ last.ev = <<Ev("throw", Null, Space(last.sz), last.al)>>
                 /\ m_data[h] = last.pre
                 /\ live = {}

C15_Witness ==
    /\ last.op = "set_alloc" /\ ~last.ok /\ last.sz = MaxSz
    /\ last.ev = <<Ev("throw", Null, Space(MaxSz), last.al)>>
    /\ m_data[last.h] = Null

\* C16: a creation constructs slot 0, then slot 1, ..., then slot n-1, each once
\* and nothing else: slot i from source item i, or from T() with init_mem, and
\* no slot at all without init_mem; no other operation constructs an element.
C16_ForwardInit ==
    /\ EventsOf("ctor") # <<>> => (last.op \in Creations /\ last.ok)
    /\ \A h \in Handles :
          (last.h = h /\ last.op \in Creations /\ last.ok) =>
              EventsOf("ctor") =
                  IF last.op \in CopyCreations
                  THEN [k \in 1..last.sz |->
                          Ev("ctor", m_data[h] + (k - 1) * SizeofT, last.vs[k], "none")]
                  ELSE IF last.im
                  THEN [k \in 1..last.sz |->
                          Ev("ctor", m_data[h] + (k - 1) * SizeofT, DefaultT, "none")]
                  ELSE <<>>

C16_Witness ==
    /\ last.op = "array_mem_vs" /\ last.ok /\ last.sz = MaxSz
    /\ last.vs = [i \in 1..MaxSz |-> MaxSz + 1 - i]
    /\ Len(EventsOf("ctor")) = MaxSz

\* C17: in a build with assertions, set on a handle that is already backed
\* traps before anything else happens: no header write, no a.allocate call, no
\* element constructed, and the handle and its block are as they were.
C17_SetOnBackedTraps ==
    \A h \in Handles :
        (debug /\ last.h = h /\ last.op \in {"set_mem", "set_alloc"}
            /\ last.pre # Null) =>
            /\ last.ev = <<Ev("trap", last.pre, 0, "none")>>
            /\ trapped
            /\ m_data[h] = last.pre
            /\ crt[h] = last.c
            /\ Read(Cur, m_data[h] - SizeofSizeT) = last.c.sz
            /\ last.c.how = "vs" => iterate(Cur, h) = last.c.vs
            /\ last.c.via \in Allocators => alloc[RegionAt(last.c.base)].used

C17_Witness ==
    /\ debug /\ trapped /\ last.op = "set_alloc" /\ last.pre # Null
    /\ last.c.how = "vs" /\ last.c.sz = MaxSz /\ iterate(Cur, last.h) = last.c.vs


\* C12: space(n) is n * sizeof(T) + sizeof(size_t) as a number, not reduced
\* modulo the width of size_t, for every n a size_t can hold, and so it exceeds
\* the n * sizeof(T) bytes the elements take.
C12_SpaceExact ==
    last.op = "space" =>
        /\ last.ret = last.sz * SizeofT + SizeofSizeT
        /\ last.ret > last.sz * SizeofT


Writes == {"index_write", "iter_write"}

\* C11: from the creation of a block of n elements until it is finalized, size()
\* is n in every state, whatever element writes, iterations and reads are made;
\* only a creation writes the header, and no element write lands on it.
C11_CountFixed ==
    /\ \A h \in Handles :
          (scope[h] = "alive" /\ crt[h].via # "none") =>
              /\ m_data[h] # Null
              /\ size(Cur, h).ret = crt[h].sz
    /\ \A h \in Handles :
          (last.h = h /\ last.op = "size" /\ last.c.via # "none") =>
              last.ret = last.c.sz
    /\ EventsOf("wrhdr") # <<>> => last.op \in Creations
    /\ \A k \in 1..Len(last.ev) :
          last.ev[k].e = "wr" => last.ev[k].a >= last.pre

C11_Witness ==
    /\ last.op = "index_write" /\ last.ok /\ last.idx = 0
    /\ crt[last.h].sz = MaxSz
    /\ \A i \in 1..MaxSz : crt[last.h].cur[i] \in Written
    /\ size(Cur, last.h).ret = MaxSz

\* C18: operator[](i) with i < size() returns what the creation placed in slot i
\* or what was last written there; a write to slot i changes that slot only,
\* not another slot and not the header; with assertions, i >= size() traps
\* before any element is read or written.
C18_IndexedAccess ==
    \A h \in Handles :
        /\ (scope[h] = "alive" /\ crt[h].how = "vs") =>
               iterate(Cur, h) = crt[h].cur
        /\ (last.h = h /\ last.op = "index_read" /\ last.idx < last.n) =>
               /\ last.ok
               /\ last.ret = last.c.cur[last.idx + 1]
               /\ EventsOf("rd") =
                      <<Ev("rd", last.pre + last.idx * SizeofT, last.ret, "none")>>
               /\ crt[h] = last.c
        /\ (last.h = h /\ last.op \in Writes /\ last.idx < last.n) =>
               /\ last.ok
               /\ EventsOf("wr") =
                      <<Ev("wr", last.pre + last.idx * SizeofT, last.ret, "none")>>
               /\ iterate(Cur, h) = [last.c.cur EXCEPT ![last.idx + 1] = last.ret]
               /\ Read(Cur, m_data[h] - SizeofSizeT) = last.n
        /\ (debug /\ last.h = h /\ last.op \in {"index_read", "index_write"}
               /\ last.idx >= last.n) =>
               /\ trapped
               /\ EventsOf("trap") = <<Ev("trap", last.pre, last.idx, "none")>>
               /\ EventsOf("rd") = <<>> /\ EventsOf("wr") = <<>>
               /\ crt[h] = last.c

C18_Witness ==
    /\ last.op = "index_read" /\ last.ok /\ last.idx = MaxSz - 1
    /\ last.n = MaxSz /\ last.ret \in Written
    /\ last.c.cur[1] \notin Written

\* C19: an empty handle reads as an array of length zero: size() is 0, begin()
\* equals end(), an iteration yields nothing, none of them reads a header or an
\* element through the null pointer, and destroy_elements calls no destructor.
C19_EmptyIsZeroLength ==
    \A h \in Handles :
        /\ (scope[h] = "alive" /\ m_data[h] = Null) =>
               /\ size(Cur, h).ev = <<>>
               /\ size(Cur, h).ret = 0
               /\ empty(Cur, h)
               /\ end(Cur, h).ev = <<>>
               /\ begin(Cur, h).ret = end(Cur, h).ret
               /\ for_each(Cur, h).ev = <<>>
               /\ destroy_elements(Cur, h).ev = <<>>
        /\ (last.h = h /\ last.op \in {"size", "empty", "iterate"}
               /\ last.pre = Null) =>
               /\ last.ev = <<>>
               /\ last.out = <<>>
               /\ last.ret = (IF last.op = "empty" THEN 1 ELSE 0)

C19_Witness ==
    /\ last.op = "iterate" /\ last.pre = Null /\ last.out = <<>>
    /\ scope[last.h] = "alive" /\ nfree[last.h] = 0

\* C20: once finalize has passed the block to a.deallocate the handle is empty,
\* and size, empty, begin/end, an iteration, a further finalize and ~array make
\* no read or write of the released block's header or elements and no call.
C20_NoUseAfterRelease ==
    \A h \in Handles :
        /\ (scope[h] = "alive" /\ crt[h].via = "none" /\ nfree[h] >= 1) =>
               /\ m_data[h] = Null
               /\ size(Cur, h).ev = <<>>
               /\ end(Cur, h).ev = <<>>
               /\ for_each(Cur, h).ev = <<>>
               /\ array_dtor(Cur, h).ev = <<>>
               /\ \A a \in Allocators : finalize(Cur, h, a).ev = <<>>
        /\ (last.h = h /\ last.c.via = "none" /\ nfree[h] >= 1
               /\ last.op \in {"size", "empty", "iterate", "finalize", "~array"}) =>
               /\ last.ev = <<>>
               /\ last.pre = Null

C20_Witness ==
    /\ last.op = "finalize" /\ last.c.via = "none" /\ nfree[last.h] = 1
    /\ last.pre = Null /\ last.ev = <<>> /\ CallDestructors


\* C14: a block has one owner: no two handles in scope hold the same non-null
\* m_data, no element of a block is torn down through two handles, and a block
\* is not passed to deallocate through a handle and through its copy.
C14_SingleOwner ==
    /\ \A g \in Handles, h \in Handles :
          (g # h /\ scope[g] = "alive" /\ scope[h] = "alive" /\ m_data[g] # Null) =>
              m_data[g] # m_data[h]
    /\ \A g \in Originals, h \in Copies :
          (crt[g].base # Null /\ crt[g].base = crt[h].base) =>
              \A i \in 1..Len(torn[g]), j \in 1..Len(torn[h]) : torn[g][i] # torn[h][j]
    /\ \A g \in Originals, h \in Copies : nfree[g] + nfree[h] <= 1

====
